---- MODULE Spec2Model ----
(***************************************************************************)
(* Query orchestration and retrieval fusion of the RAG-based assistant:    *)
(* reciprocal rank fusion (modules/rrf_score.py), the bounded multi-hop    *)
(* loop (modules/multi_hop_retriever.py), the multi-query path             *)
(* (modules/multi_query_retriever.py), the conversation memory             *)
(* (modules/conversation_history.py) and the conversation loop (app.py).   *)
(***************************************************************************)
EXTENDS Integers, Sequences, FiniteSets, TLC

(***************************************************************************)
(* Bounds of the model.                                                    *)
(***************************************************************************)
MaxLen == 3        \* documents in a ranked list that is fused alone
MaxDepth == 2      \* documents in each ranked list when several are fused
MaxLists == 2      \* ranked lists fused together
MaxTopK == 3       \* largest top_k argument
MaxCalls == 2      \* rearrange calls on one RRF object, and RRF objects
MaxIter == 3       \* largest max_iteration_allowed given to MultiHopRetriever.invoke
MaxInvokes == 2    \* invoke calls on one retriever object
MaxRecords == 4    \* subqueries one MultiHopRetriever object may come to hold
MaxTurns == 3      \* input lines read by the conversation loop
MaxRecall == 2     \* largest recall depth k of a memory used on its own
MaxAppends == 5    \* append calls on such a memory
MaxRows == 2       \* rows of the evaluation dataset

(***************************************************************************)
(* Documents.  A langchain Document has page_content and a metadata dict;  *)
(* a dict is modelled as the sequence of its (key, value) pairs in         *)
(* insertion order, which is what metadata.items() iterates over.          *)
(***************************************************************************)
Document(text, meta) == [page_content |-> text, metadata |-> meta]

DocA == Document("a", <<>>)
DocP == Document("p", << <<"source", "act">>, <<"page", "1">> >>)
DocQ == Document("p", << <<"page", "1">>, <<"source", "act">> >>)
Docs == {DocA, DocP, DocQ}

\* The three ranked lists of the module's own test run.
DocOne == Document("this is document one", <<>>)
DocTwo == Document("this is document two", <<>>)
DocThree == Document("this is document three", <<>>)
DocFour == Document("this is document four", <<>>)
DocFive == Document("this is document five", <<>>)
query_one == <<DocFive, DocFour, DocThree, DocTwo>>
query_two == <<DocOne, DocThree, DocTwo, DocFour>>
query_three == <<DocFour, DocTwo, DocOne, DocThree>>
all_docs == <<query_one, query_two, query_three>>

SeqsUpTo(S, n) == UNION {[1..k -> S] : k \in 0..n}

TestInputs == [1..3 -> {query_one, query_two, query_three}]
RRFInputs ==
  {<<docs>> : docs \in SeqsUpTo(Docs, MaxLen)}
    \cup SeqsUpTo(SeqsUpTo(Docs, MaxDepth), MaxLists)
    \cup TestInputs

\* A Python list given by its elements: the sequence, fully evaluated.
List(elements) == SubSeq(elements, 1, Len(elements))

Min(a, b) == IF a <= b THEN a ELSE b
Max(a, b) == IF a >= b THEN a ELSE b

(***************************************************************************)
(* Scores.  1/(60+rank) is kept exactly, as an integer number of units of  *)
(* 1/RRFScale, where RRFScale is the least common multiple of the          *)
(* denominators 61 .. 60+MaxRank that can occur.                           *)
(***************************************************************************)
RRFConst == 60
MaxRank == Max(Max(MaxLen, MaxDepth), 4)

RECURSIVE Gcd(_, _)
Gcd(a, b) == IF b = 0 THEN a ELSE Gcd(b, a % b)

RECURSIVE LcmUpTo(_)
LcmUpTo(r) ==
  IF r = 0 THEN 1
  ELSE LET m == LcmUpTo(r - 1)
           d == RRFConst + r
       IN (m \div Gcd(m, d)) * d

RRFScale == LcmUpTo(MaxRank)

\* rrf_rank = 1/(60+rank)
rrf_rank_rank0(rank) == RRFScale \div (RRFConst + rank - 1)
rrf_rank(rank) == RRFScale \div (RRFConst + rank)

\* key = (doc.page_content, tuple(doc.metadata.items()))
KeyOf(doc) == <<doc.page_content, doc.metadata>>

(***************************************************************************)
(* A Python dict, as the sequence of its items in insertion order.         *)
(***************************************************************************)
DictHas(items, key) == \E i \in 1..Len(items) : items[i][1] = key

DictGet(items, key, default) ==
  IF DictHas(items, key)
  THEN items[CHOOSE i \in 1..Len(items) : items[i][1] = key][2]
  ELSE default

DictSet_append(items, key, value) == Append(items, <<key, value>>)
DictSet(items, key, value) ==
  IF DictHas(items, key)
  THEN List([i \in 1..Len(items) |->
               IF items[i][1] = key THEN <<key, value>> ELSE items[i]])
  ELSE Append(items, <<key, value>>)

(***************************************************************************)
(* RRF.rearrange                                                           *)
(***************************************************************************)
\* for rank, doc in enumerate(docs, start=1)
Enumerate(docs) == List([r \in 1..Len(docs) |-> [rank |-> r, doc |-> docs[r]]])

\* for docs in self.documents: for rank, doc in enumerate(docs, start=1)
RECURSIVE ScanOrder(_)
ScanOrder(documents) ==
  IF documents = <<>> THEN <<>>
  ELSE Enumerate(Head(documents)) \o ScanOrder(Tail(documents))

\* the loop body, run over the scan: the state is (doc_map, rrf_scores)
RECURSIVE ScanLoop(_, _, _)
ScanLoop(scan, doc_map, scores) ==
  IF scan = <<>> THEN [doc_map |-> doc_map, rrf_scores |-> scores]
  ELSE LET e == Head(scan)
           key == KeyOf(e.doc)
       IN ScanLoop(Tail(scan),
                   DictSet(doc_map, key, e.doc),
                   DictSet(scores, key, DictGet(scores, key, 0) + rrf_rank(e.rank)))

\* sorted(items, key=lambda x: x[1], reverse=True): stable, descending
InsertDesc_unstable(sorted, item) ==
  LET n == Cardinality({i \in 1..Len(sorted) : sorted[i][2] > item[2]})
  IN SubSeq(sorted, 1, n) \o <<item>> \o SubSeq(sorted, n + 1, Len(sorted))
InsertDesc(sorted, item) ==
  LET n == Cardinality({i \in 1..Len(sorted) : sorted[i][2] >= item[2]})
  IN SubSeq(sorted, 1, n) \o <<item>> \o SubSeq(sorted, n + 1, Len(sorted))

InsertAsc(sorted, item) ==
  LET n == Cardinality({i \in 1..Len(sorted) : sorted[i][2] <= item[2]})
  IN SubSeq(sorted, 1, n) \o <<item>> \o SubSeq(sorted, n + 1, Len(sorted))

RECURSIVE SortedDesc_ascending(_)
SortedDesc_ascending(items) ==
  IF items = <<>> THEN <<>>
  ELSE InsertAsc(SortedDesc_ascending(SubSeq(items, 1, Len(items) - 1)), items[Len(items)])

RECURSIVE SortedDesc(_)
SortedDesc(items) ==
  IF items = <<>> THEN <<>>
  ELSE InsertDesc(SortedDesc(SubSeq(items, 1, Len(items) - 1)), items[Len(items)])

\* best_docs = [doc_map[key] for key, _ in self.rrf_scores]
BestDocs(doc_map, sorted) ==
  List([i \in 1..Len(sorted) |-> DictGet(doc_map, sorted[i][1], DocA)])

\* best_docs[:top_k] if top_k else best_docs
TopSlice_always(best_docs, top_k) == SubSeq(best_docs, 1, Min(top_k, Len(best_docs)))
TopSlice(best_docs, top_k) ==
  IF top_k # 0 THEN SubSeq(best_docs, 1, Min(top_k, Len(best_docs)))
  ELSE best_docs

\* One call of rearrange on an object whose rrf_scores is `acc`
\* (kind "dict" after __init__, kind "list" after a completed call).
Rearrange(documents, acc, top_k) ==
  IF acc.kind # "dict"
  THEN \* list has neither .get (line 18) nor .items (line 20): AttributeError
       [status |-> "error", docs |-> <<>>, rrf_scores |-> acc]
  ELSE LET loop == ScanLoop(ScanOrder(documents), <<>>, acc.items)
           sorted == SortedDesc(loop.rrf_scores)
       IN [status |-> "ok",
           docs |-> TopSlice(BestDocs(loop.doc_map, sorted), top_k),
           rrf_scores |-> [kind |-> "list", items |-> sorted]]

\* RRF(documents).rearrange(top_k) on a newly constructed object
EmptyDict == [kind |-> "dict", items |-> <<>>]
Fuse(documents, top_k) == Rearrange(documents, EmptyDict, top_k).docs

(***************************************************************************)
(* MultiHopRetriever: oracle decisions, retrievers, rendering              *)
(***************************************************************************)
\* resp of the chain: {end_of_generation, subquery}.  The decisions followed
\* are those that end the generation, with any subquery text, and those that
\* go on with one of the two subquery texts.
SubqueryTexts == {"sq1", "sq2"}
SubQuery == [end_of_generation : BOOLEAN, subquery : SubqueryTexts \cup {""}]
OracleDecisions ==
  {d \in SubQuery : d.end_of_generation \/ d.subquery # ""}

\* self.bm25_retriever.invoke(q), self.semantic_retriever.invoke(q)
BM25Results == {<<DocA, DocP>>, <<DocQ>>}
SemanticResults == {<<DocP, DocA>>}

\* rrf.rearrange(top_k=7)
HopTopK == 7

\* for i in range(max_iteration_allowed)
InRange_inclusive(i, max_iteration_allowed) == i <= max_iteration_allowed
InRange(i, max_iteration_allowed) == i < max_iteration_allowed

\* if not resp['end_of_generation']
Continues_always(resp) == TRUE
Continues(resp) == ~resp.end_of_generation

\* zip(self.subqueries, self.retrieved_respective_documents)
Zip(xs, ys) == List([i \in 1..Min(Len(xs), Len(ys)) |-> <<xs[i], ys[i]>>])

\* {subquery: list_of_docs for subquery, list_of_docs in zip(...)}
RECURSIVE DictOf_keepfirst(_)
DictOf_keepfirst(pairs) ==
  IF pairs = <<>> THEN <<>>
  ELSE LET rest == DictOf_keepfirst(SubSeq(pairs, 1, Len(pairs) - 1))
           last == pairs[Len(pairs)]
       IN IF DictHas(rest, last[1]) THEN rest ELSE Append(rest, last)
RECURSIVE DictOf(_)
DictOf(pairs) ==
  IF pairs = <<>> THEN <<>>
  ELSE LET last == pairs[Len(pairs)]
       IN DictSet(DictOf(SubSeq(pairs, 1, Len(pairs) - 1)), last[1], last[2])

\* '\n'.join(doc.page_content for doc in list_of_documents)
PageContents(list_of_documents) ==
  List([i \in 1..Len(list_of_documents) |-> list_of_documents[i].page_content])

\* generate_subquery_content: the header followed by one numbered entry per
\* key of the dict; the text is kept as the sequence of its entries.
GenerateSubqueryContent(subqs, docs) ==
  LET items == DictOf(Zip(subqs, docs))
  IN [header |-> "### Subqueries + Retrieved Documents",
      entries |-> List([i \in 1..Len(items) |->
                          [index |-> i,
                           subquery |-> items[i][1],
                           documents |-> PageContents(items[i][2])]])]

\* the empty string ""
EmptyText == [header |-> "", entries |-> <<>>]

(***************************************************************************)
(* ConversationSummaryMemory: turns, window, rendering                     *)
(***************************************************************************)
AIMessage(content) == [type |-> "ai", content |-> content]
HumanMessage_ai(content) == [type |-> "ai", content |-> content]
HumanMessage(content) == [type |-> "human", content |-> content]

\* seq[start:], a negative start counting from the end (and -0 being 0)
SliceFrom(seq, start) ==
  LET first == IF start < 0
               THEN Max(Len(seq) + start, 0)
               ELSE Min(start, Len(seq))
  IN SubSeq(seq, first + 1, Len(seq))

\* windowed_conversation
WindowedConversation(convs, win) ==
  IF Len(convs) > win THEN SliceFrom(convs, -win) ELSE convs

\* turns appended to a memory used on its own
Turns == {AIMessage("m1"), HumanMessage("m1"), HumanMessage("m2")}

\* __pretty_print: one line "> {type}: {content}" per turn
PrettyPrint(convs) ==
  List([i \in 1..Len(convs) |-> <<">", convs[i].type, convs[i].content>>])

\* texts the summarization chain may return
SummaryTexts == {"summary 1", "summary 2"}

(***************************************************************************)
(* QueryComplexity, MultiQueryRetriever, ChatbotResponse, console input    *)
(***************************************************************************)
\* resp["complexity"]: the schema's three values, and values outside it
\* (JsonOutputParser does not validate the parsed JSON against the schema)
SchemaTiers == {"simple_conversation", "complex", "multi_hop"}
TierValues == SchemaTiers \cup {"multi-hop", "irrelevant"}

\* resp of the router chain: a dict with "complexity", or a dict without it
RouterResponses ==
  {[kind |-> "dict", complexity |-> t] : t \in TierValues}
    \cup {[kind |-> "dict_without_key", complexity |-> ""]}
NoRouterResp == [kind |-> "none", complexity |-> ""]

\* return resp["complexity"]: the value, or KeyError when the key is missing
RouterReturn(resp) ==
  IF resp.kind = "dict"
  THEN [status |-> "ok", value |-> resp.complexity]
  ELSE [status |-> "raised", value |-> ""]

\* lines typed at the prompt, with str.strip() and str.lower() on them
InputLines == {"what is section 64?", "exit", " Exit ", "EXIT"}
Strip(line) == IF line = " Exit " THEN "Exit" ELSE line
Lower_identity(line) == line
Lower(line) ==
  CASE line = "Exit" -> "exit"
    [] line = " Exit " -> " exit "
    [] line = "EXIT" -> "exit"
    [] OTHER -> line

welcome_message == "Welcome to the Legal Assistant Bot."
eval_welcome_message == "Hello! I'm a RAG-based legal assistant."
ragas_question == "question"
out_of_scope_reply == "I'm here to assist you with Legal queries."

\* texts the response chain may return
Responses == {"answer"}

\* resp of the multi-query chain: a dict with generatedQueries, a dict
\* without it, or a value that is no dict
Paraphrases == {<<>>, <<"p1">>, <<"p1", "p2">>, <<"p1", "p1">>}
MQResponses ==
  {[kind |-> "dict", generatedQueries |-> qs] : qs \in Paraphrases}
    \cup {[kind |-> "dict_without_key", generatedQueries |-> <<>>],
          [kind |-> "no_dict", generatedQueries |-> <<>>]}

\* resp.get("generatedQueries", [""]) if isinstance(resp, dict) else [""]
TranslatedQueries_nofallback(resp) ==
  IF resp.kind = "dict" THEN resp.generatedQueries ELSE <<>>
TranslatedQueries(resp) ==
  IF resp.kind = "dict" THEN resp.generatedQueries ELSE <<"">>

\* MultiQueryRetriever.top_k, ConversationSummaryMemory(k=3) of app.py and
\* of ragas_eval.py, max_iteration_allowed=5
MultiQueryTopK == 3
AppRecallDepth == 3
EvalRecallDepth == 3
DefaultMaxIteration == 5

(***************************************************************************)
(* State                                                                   *)
(***************************************************************************)
VARIABLES
  documents,    \* RRF.documents: the ranked lists given to the constructor
  rrf_scores,   \* RRF.rrf_scores
  rrf_top_k,    \* the top_k argument the caller passes to rearrange
  rrf_out,      \* outcome of the latest rearrange call
  rrf_calls,    \* rearrange calls made on the current object
  rrf_objects   \* RRF objects constructed from `documents` so far

VARIABLES
  hop_pc,                          \* position in MultiHopRetriever.invoke
  hop_i,                           \* loop variable i
  max_iteration_allowed,           \* argument of the running invoke
  subqueries,                      \* MultiHopRetriever.subqueries
  retrieved_respective_documents,  \* MultiHopRetriever.retrieved_respective_documents
  hop_args,                        \* user_query and memory given to the running invoke
  hop_prompt,                      \* the other inputs of the latest oracle call
  hop_resp,                        \* resp of the latest oracle call
  hop_context,                     \* subqueries_and_relevant_documents given to it
  hop_oracle_calls,                \* oracle calls of the running invoke
  hop_fusions,                     \* retrieve-and-fuse steps of the running invoke
  hop_invokes,                     \* invoke calls made on the object
  hop_output                       \* value returned by the latest invoke

VARIABLES
  conversations,      \* ConversationSummaryMemory.conversations
  window,             \* ConversationSummaryMemory.window
  summary_cache,      \* ConversationSummaryMemory._summary_cache
  summary_calls,      \* calls of the summarization chain so far
  summary_input,      \* total_conversation_context of the latest such call
  summary_seen,       \* positions of the turns given to such a call so far
  append_status       \* outcome of the latest append call

VARIABLES
  sub_queries,        \* MultiQueryRetriever.sub_queries
  all_documents,      \* MultiQueryRetriever.all_documents
  mq_status,          \* outcome of the latest MultiQueryRetriever.invoke
  mq_resp,            \* resp of its chain.invoke
  mq_results,         \* results of its retriever calls, one pair per query
  mq_out,             \* best_docs it returned
  mq_invokes          \* invoke calls made on the object

VARIABLES
  app_pc,             \* position in the conversation loop
  app_turns,          \* input lines read so far
  input_line,         \* the line input() returned in this turn
  router_resp,        \* resp of the router's chain.invoke in this turn
  turn_calls,         \* components invoked so far in this turn
  latest_user_query,
  complexity_tier,
  retrieved_docs,
  subquery_plus_docs,
  ai_resp,
  app_path,           \* branch of the tier dispatch taken in this turn
  generator_input     \* arguments of the latest response_generator.invoke

VARIABLES
  eval_pc,              \* position in the evaluation script
  eval_rows,            \* rows of eval_df
  count,                \* rows processed so far
  answers,              \* the list `answers`
  retrieved_documents   \* the list `retrieved_documents`

rrfVars == <<documents, rrf_scores, rrf_top_k, rrf_out, rrf_calls, rrf_objects>>
memVars == <<conversations, window, summary_cache, summary_calls,
             summary_input, summary_seen, append_status>>
mqCallVars == <<mq_status, mq_resp, mq_results, mq_out, mq_invokes>>
mqVars == <<sub_queries, all_documents, mqCallVars>>
appVars == <<app_pc, app_turns, input_line, router_resp, turn_calls,
             latest_user_query, complexity_tier,
             retrieved_docs, subquery_plus_docs, ai_resp, app_path,
             generator_input>>
hopVars == <<hop_pc, hop_i, max_iteration_allowed, hop_args, hop_prompt,
             subqueries, retrieved_respective_documents, hop_resp, hop_context,
             hop_oracle_calls, hop_fusions, hop_invokes, hop_output>>
evalVars == <<eval_pc, eval_rows, count, answers, retrieved_documents>>
vars == <<rrfVars, hopVars, memVars, mqVars, appVars, evalVars>>

NoOutcome == [status |-> "none", docs |-> <<>>]

\* RRF.__init__
RRFInit ==
  /\ documents \in RRFInputs
  /\ rrf_scores = EmptyDict
  /\ rrf_top_k \in 0..MaxTopK
  /\ rrf_out = NoOutcome
  /\ rrf_calls = 0
  /\ rrf_objects = 1

\* rrf.rearrange(top_k)
RRFRearrange ==
  /\ rrf_calls < MaxCalls
  /\ LET r == Rearrange(documents, rrf_scores, rrf_top_k)
     IN /\ rrf_out' = [status |-> r.status, docs |-> r.docs]
        /\ rrf_scores' = r.rrf_scores
  /\ rrf_calls' = rrf_calls + 1
  /\ UNCHANGED <<documents, rrf_top_k, rrf_objects>>

\* RRF(documents) once more, from the same lists
RRFConstruct ==
  /\ rrf_calls > 0
  /\ rrf_objects < MaxCalls
  /\ rrf_scores' = EmptyDict
  /\ rrf_calls' = 0
  /\ rrf_objects' = rrf_objects + 1
  /\ UNCHANGED <<documents, rrf_top_k, rrf_out>>

(***************************************************************************)
(* MultiHopRetriever                                                       *)
(***************************************************************************)
NoResp == [end_of_generation |-> FALSE, subquery |-> ""]
NoArgs == [user_query |-> "", memory |-> <<>>]
NoPrompt == [max_iteration_allowed |-> 0, user_query |-> "", memory |-> <<>>]

\* user_query and memory of the invoke calls made on a retriever used on its own
HopCalls ==
  {[user_query |-> "q1", memory |-> <<>>],
   [user_query |-> "q2", memory |-> <<AIMessage(welcome_message)>>]}

\* MultiHopRetriever.__init__
HopNew ==
  /\ hop_pc = "idle"
  /\ hop_i = 0
  /\ max_iteration_allowed = 0
  /\ hop_args = NoArgs
  /\ hop_prompt = NoPrompt
  /\ subqueries = <<>>
  /\ retrieved_respective_documents = <<>>
  /\ hop_resp = NoResp
  /\ hop_context = EmptyText
  /\ hop_oracle_calls = 0
  /\ hop_fusions = 0
  /\ hop_invokes = 0
  /\ hop_output = EmptyText

\* invoke is entered with its arguments: i starts at 0
HopEnter(user_query, memory, max) ==
  /\ hop_pc' = "loop"
  /\ hop_i' = 0
  /\ max_iteration_allowed' = max
  /\ hop_args' = [user_query |-> user_query, memory |-> memory]
  /\ hop_oracle_calls' = 0
  /\ hop_fusions' = 0
  /\ hop_invokes' = hop_invokes + 1
  /\ UNCHANGED <<subqueries, retrieved_respective_documents, hop_resp,
                 hop_prompt, hop_context, hop_output>>

\* multihop_retriever.invoke(user_query, memory, max_iteration_allowed)
HopInvoke ==
  /\ hop_pc \in {"idle", "done", "raised"}
  /\ hop_invokes < MaxInvokes
  /\ \E call \in HopCalls, max \in 0..MaxIter :
       /\ Len(subqueries) + max <= MaxRecords
       /\ HopEnter(call.user_query, call.memory, max)

\* the inputs of chain.invoke besides the rendered records (lines 85-87)
HopPromptInputs ==
  [max_iteration_allowed |-> max_iteration_allowed,
   user_query |-> hop_args.user_query,
   memory |-> hop_args.memory]

\* subqueries_and_relevant_documents of the prompt (line 88)
HopPromptContext_rendered ==
  GenerateSubqueryContent(subqueries, retrieved_respective_documents)
HopPromptContext ==
  IF Len(subqueries) > 0
  THEN GenerateSubqueryContent(subqueries, retrieved_respective_documents)
  ELSE EmptyText

\* One more iteration: the oracle answers (lines 78-96); when it does not end
\* the generation, its subquery is appended (line 106).
HopOracle ==
  /\ hop_pc = "loop"
  /\ InRange(hop_i, max_iteration_allowed)
  /\ hop_context' = HopPromptContext
  /\ hop_prompt' = HopPromptInputs
  /\ hop_oracle_calls' = hop_oracle_calls + 1
  /\ \E resp \in OracleDecisions :
       /\ hop_resp' = resp
       /\ IF Continues(resp)
          THEN /\ subqueries' = Append(subqueries, resp.subquery)
               /\ hop_pc' = "retrieve"
          ELSE /\ UNCHANGED subqueries           \* break
               /\ hop_pc' = "return"
  /\ UNCHANGED <<hop_args, hop_i, max_iteration_allowed, retrieved_respective_documents,
                 hop_fusions, hop_invokes, hop_output>>

\* chain.invoke raises (timeout, unparsable output), or resp lacks a key
HopOracleRaises ==
  /\ hop_pc = "loop"
  /\ InRange(hop_i, max_iteration_allowed)
  /\ hop_context' = HopPromptContext
  /\ hop_prompt' = HopPromptInputs
  /\ hop_oracle_calls' = hop_oracle_calls + 1
  /\ hop_pc' = "raised"
  /\ UNCHANGED <<hop_args, hop_i, max_iteration_allowed, subqueries,
                 retrieved_respective_documents, hop_resp, hop_fusions,
                 hop_invokes, hop_output>>

\* both retrievers answer, RRF fuses the two lists (lines 107-114)
HopRetrieve ==
  /\ hop_pc = "retrieve"
  /\ \E bm25 \in BM25Results, semantic \in SemanticResults :
       LET best_relevant_docs == Fuse(<<bm25, semantic>>, HopTopK)
       IN retrieved_respective_documents' =
            Append(retrieved_respective_documents, best_relevant_docs)
  /\ hop_fusions' = hop_fusions + 1
  /\ hop_i' = hop_i + 1
  /\ hop_pc' = "loop"
  /\ UNCHANGED <<hop_args, hop_prompt, max_iteration_allowed, subqueries, hop_resp, hop_context,
                 hop_oracle_calls, hop_invokes, hop_output>>

\* one of the two retriever calls raises (lines 109-110)
HopRetrieverRaises ==
  /\ hop_pc = "retrieve"
  /\ hop_pc' = "raised"
  /\ UNCHANGED <<hop_args, hop_prompt, hop_i, max_iteration_allowed, subqueries,
                 retrieved_respective_documents, hop_resp, hop_context,
                 hop_oracle_calls, hop_fusions, hop_invokes, hop_output>>

\* the loop is over: return self.generate_subquery_content() (line 118)
HopReturn ==
  /\ \/ hop_pc = "return"
     \/ hop_pc = "loop" /\ ~InRange(hop_i, max_iteration_allowed)
  /\ hop_output' = GenerateSubqueryContent(subqueries, retrieved_respective_documents)
  /\ hop_pc' = "done"
  /\ UNCHANGED <<hop_args, hop_prompt, hop_i, max_iteration_allowed, subqueries,
                 retrieved_respective_documents, hop_resp, hop_context,
                 hop_oracle_calls, hop_fusions, hop_invokes>>

HopStep ==
  \/ HopOracle
  \/ HopOracleRaises
  \/ HopRetrieve
  \/ HopRetrieverRaises
  \/ HopReturn

(***************************************************************************)
(* ConversationSummaryMemory                                               *)
(***************************************************************************)
NoSummaryInput == [prev |-> "", latest |-> <<>>]

\* ConversationSummaryMemory(model, k)
MemNew(k) ==
  /\ conversations = <<>>
  /\ window = k * 2
  /\ summary_cache = ""
  /\ summary_calls = 0
  /\ summary_input = NoSummaryInput
  /\ summary_seen = {}
  /\ append_status = "none"

\* self.conversations.append(conversation)
Stored_prepend(convs, conversation) == <<conversation>> \o convs
Stored(convs, conversation) == Append(convs, conversation)

\* if len(self.conversations) > self.window
NeedsSummary_atwindow(convs, win) == Len(convs) >= win
NeedsSummary(convs, win) == Len(convs) > win

\* total_conversation_context: prev and the rendering of the windowed view
SummaryInput(prev, convs, win) ==
  [prev |-> prev, latest |-> PrettyPrint(WindowedConversation(convs, win))]

\* positions in the history of the turns of the windowed view
ViewPositions(convs, win) ==
  LET view == WindowedConversation(convs, win)
  IN (Len(convs) - Len(view) + 1)..Len(convs)

\* self._summary_cache when chain.invoke raises: the assignment is not made
CacheOnFailure_cleared(prev) == ""
CacheOnFailure(prev) == prev

\* append(conversation), the summarization chain answering when it is called
MemAppend(conversation) ==
  /\ conversations' = Stored(conversations, conversation)
  /\ IF NeedsSummary(conversations', window)
     THEN /\ summary_input' = SummaryInput(summary_cache, conversations', window)
          /\ summary_seen' = summary_seen \cup ViewPositions(conversations', window)
          /\ summary_calls' = summary_calls + 1
          /\ summary_cache' \in SummaryTexts
     ELSE UNCHANGED <<summary_cache, summary_calls, summary_input, summary_seen>>
  /\ append_status' = "returned"
  /\ UNCHANGED window

\* append(conversation), the summarization chain raising
MemAppendRaises(conversation) ==
  /\ conversations' = Stored(conversations, conversation)
  /\ NeedsSummary(conversations', window)
  /\ summary_input' = SummaryInput(summary_cache, conversations', window)
  /\ summary_seen' = summary_seen \cup ViewPositions(conversations', window)
  /\ summary_calls' = summary_calls + 1
  /\ summary_cache' = CacheOnFailure(summary_cache)
  /\ append_status' = "raised"
  /\ UNCHANGED window

(***************************************************************************)
(* MultiQueryRetriever                                                     *)
(***************************************************************************)
NoMQResp == [kind |-> "none", generatedQueries |-> <<>>]

\* MultiQueryRetriever.__init__
MQNew ==
  /\ sub_queries = <<>>
  /\ all_documents = <<>>
  /\ mq_status = "idle"
  /\ mq_resp = NoMQResp
  /\ mq_results = <<>>
  /\ mq_out = <<>>
  /\ mq_invokes = 0

\* __translate_queries: self.sub_queries after the extend
MQQueries(resp) == sub_queries \o TranslatedQueries(resp)

\* results the two retrievers may give in __retrieve, which calls them once
\* for every query of self.sub_queries
MQResults(resp) ==
  [1..Len(MQQueries(resp)) -> BM25Results \X SemanticResults]

\* __retrieve: one list per sub query, bm25 result + semantic result
Retrieved(results) ==
  List([i \in 1..Len(results) |-> results[i][1] \o results[i][2]])

\* RRF(self.all_documents).rearrange(top_k=self.top_k): the returned best_docs
MQBestDocs(results) ==
  Fuse(all_documents \o Retrieved(results), MultiQueryTopK)

\* invoke: __translate_queries, __retrieve, then the fusion of MQBestDocs
MQInvoke(resp, results) ==
  /\ sub_queries' = MQQueries(resp)
  /\ all_documents' = all_documents \o Retrieved(results)

\* multiquery_retriever.invoke(user_query, memory) returns
MQInvokeReturns ==
  /\ mq_invokes < MaxInvokes
  /\ \E resp \in MQResponses :
       \E results \in MQResults(resp) :
         /\ MQInvoke(resp, results)
         /\ mq_resp' = resp
         /\ mq_results' = List(results)
         /\ mq_out' = MQBestDocs(results)
  /\ mq_status' = "done"
  /\ mq_invokes' = mq_invokes + 1

\* ... or raises: in chain.invoke (line 56), or in a retriever call made for
\* the query at position n + 1 (lines 62-63)
MQInvokeRaises ==
  /\ mq_invokes < MaxInvokes
  /\ \/ UNCHANGED <<sub_queries, all_documents, mq_resp, mq_results>>
     \/ \E resp \in MQResponses :
          \E results \in MQResults(resp) :
            \E n \in 0..(Len(results) - 1) :
              /\ sub_queries' = MQQueries(resp)
              /\ all_documents' =
                   all_documents \o Retrieved(SubSeq(results, 1, n))
              /\ mq_resp' = resp
              /\ mq_results' = SubSeq(results, 1, n)
  /\ mq_status' = "raised"
  /\ mq_invokes' = mq_invokes + 1
  /\ UNCHANGED mq_out

(***************************************************************************)
(* Conversation loop                                                       *)
(***************************************************************************)
NoGeneratorInput ==
  [memory |-> <<>>, subquery_docs |-> EmptyText, documents |-> <<>>]

\* lines 29-57: the objects are built and the welcome message is appended
AppStart ==
  /\ app_pc = "input"
  /\ app_turns = 0
  /\ input_line = ""
  /\ router_resp = NoRouterResp
  /\ turn_calls = {}
  /\ latest_user_query = ""
  /\ complexity_tier = ""
  /\ retrieved_docs = <<>>
  /\ subquery_plus_docs = EmptyText
  /\ ai_resp = ""
  /\ app_path = "none"
  /\ generator_input = NoGeneratorInput
  /\ conversations = <<AIMessage(welcome_message)>>
  /\ window = AppRecallDepth * 2
  /\ summary_cache = ""
  /\ summary_calls = 0
  /\ summary_input = NoSummaryInput
  /\ summary_seen = {}
  /\ append_status = "returned"

\* MultiHopRetriever(...): the loop's object is a new one (line 91)
HopReplaced ==
  /\ hop_pc' = "idle"
  /\ hop_i' = 0
  /\ max_iteration_allowed' = 0
  /\ hop_args' = NoArgs
  /\ hop_prompt' = NoPrompt
  /\ subqueries' = <<>>
  /\ retrieved_respective_documents' = <<>>
  /\ hop_resp' = NoResp
  /\ hop_context' = EmptyText
  /\ hop_oracle_calls' = 0
  /\ hop_fusions' = 0
  /\ hop_invokes' = 0
  /\ hop_output' = EmptyText

\* lines 62-76: a line is read; `exit` ends the loop
AppReadInput ==
  /\ app_pc = "input"
  /\ app_turns < MaxTurns
  /\ app_turns' = app_turns + 1
  /\ retrieved_docs' = <<>>
  /\ subquery_plus_docs' = EmptyText
  /\ app_path' = "none"
  /\ turn_calls' = {}
  /\ \E line \in InputLines :
       /\ input_line' = line
       /\ latest_user_query' = Strip(line)
       /\ IF Lower(Strip(latest_user_query')) = "exit"
          THEN app_pc' = "ended"
          ELSE app_pc' = "classify"
  /\ UNCHANGED <<router_resp, complexity_tier, ai_resp, generator_input>>
  /\ UNCHANGED <<rrfVars, hopVars, memVars, mqVars>>

\* lines 79-95: the router answers with a complexity value, both retrievers
\* are instantiated
AppClassify ==
  /\ app_pc = "classify"
  /\ \E resp \in RouterResponses :
       /\ RouterReturn(resp).status = "ok"
       /\ router_resp' = resp
       /\ complexity_tier' = RouterReturn(resp).value
  /\ turn_calls' = turn_calls \cup {"router"}
  /\ app_pc' = "dispatch"
  /\ sub_queries' = <<>>
  /\ all_documents' = <<>>
  /\ UNCHANGED mqCallVars
  /\ HopReplaced
  /\ UNCHANGED <<app_turns, input_line, latest_user_query, retrieved_docs,
                 subquery_plus_docs, ai_resp, app_path, generator_input>>
  /\ UNCHANGED <<rrfVars, memVars>>

\* line 79: the router's resp has no complexity value and QueryComplexity.invoke
\* raises; the loop catches KeyboardInterrupt only
AppClassifyRaises ==
  /\ app_pc = "classify"
  /\ \E resp \in RouterResponses :
       /\ RouterReturn(resp).status = "raised"
       /\ router_resp' = resp
  /\ turn_calls' = turn_calls \cup {"router"}
  /\ app_pc' = "crashed"
  /\ UNCHANGED <<app_turns, input_line, latest_user_query, complexity_tier,
                 retrieved_docs, subquery_plus_docs, ai_resp, app_path,
                 generator_input>>
  /\ UNCHANGED <<rrfVars, hopVars, memVars, mqVars>>

\* component called at a position of the loop
CalledAt(pc) ==
  CASE pc = "classify" -> "router"
    [] pc = "dispatch" -> "multi_query"
    [] pc = "generate" -> "generator"

\* a call made by the loop raises (only KeyboardInterrupt is caught):
\* the router chain raises (line 79), MultiQueryRetriever.invoke raises
\* (line 99), the response chain raises (line 122)
AppCallRaises ==
  /\ \/ app_pc \in {"classify", "generate"}
     \/ app_pc = "dispatch" /\ complexity_tier = "complex"
  /\ turn_calls' = turn_calls \cup {CalledAt(app_pc)}
  /\ app_pc' = "crashed"
  /\ UNCHANGED <<app_turns, input_line, router_resp, latest_user_query,
                 complexity_tier, retrieved_docs, subquery_plus_docs, ai_resp,
                 app_path, generator_input>>
  /\ UNCHANGED <<rrfVars, hopVars, memVars, mqVars>>

\* lines 98-99
AppMultiQuery ==
  /\ app_pc = "dispatch"
  /\ complexity_tier = "complex"
  /\ \E resp \in MQResponses :
       \E results \in MQResults(resp) :
         /\ MQInvoke(resp, results)
         /\ retrieved_docs' = retrieved_docs \o MQBestDocs(results)
  /\ UNCHANGED mqCallVars
  /\ turn_calls' = turn_calls \cup {"multi_query"}
  /\ app_path' = "multi_query"
  /\ app_pc' = "append_human"
  /\ UNCHANGED <<app_turns, input_line, router_resp, latest_user_query,
                 complexity_tier, subquery_plus_docs, ai_resp, generator_input>>
  /\ UNCHANGED <<rrfVars, hopVars, memVars>>

\* lines 100-101: multihop_retriever.invoke is entered
AppMultiHop ==
  /\ app_pc = "dispatch"
  /\ complexity_tier # "complex"
  /\ complexity_tier = "multi-hop"
  /\ HopEnter(latest_user_query, conversations, DefaultMaxIteration)
  /\ turn_calls' = turn_calls \cup {"multi_hop"}
  /\ app_path' = "multi_hop"
  /\ app_pc' = "multihop"
  /\ UNCHANGED <<app_turns, input_line, router_resp, latest_user_query,
                 complexity_tier, retrieved_docs, subquery_plus_docs, ai_resp,
                 generator_input>>
  /\ UNCHANGED <<rrfVars, memVars, mqVars>>

\* the steps of the running multihop_retriever.invoke
AppMultiHopStep ==
  /\ app_pc = "multihop"
  /\ HopStep
  /\ UNCHANGED <<rrfVars, memVars, mqVars, appVars>>

\* line 101: invoke has returned.  The loop does not use the retriever object
\* again before line 91 replaces it, so it is replaced here already.
AppMultiHopReturns ==
  /\ app_pc = "multihop"
  /\ hop_pc = "done"
  /\ subquery_plus_docs' = hop_output
  /\ app_pc' = "append_human"
  /\ HopReplaced
  /\ UNCHANGED <<app_turns, input_line, router_resp, turn_calls,
                 latest_user_query, complexity_tier, retrieved_docs, ai_resp,
                 app_path, generator_input>>
  /\ UNCHANGED <<rrfVars, memVars, mqVars>>

\* line 101: invoke has raised
AppMultiHopRaises ==
  /\ app_pc = "multihop"
  /\ hop_pc = "raised"
  /\ app_pc' = "crashed"
  /\ UNCHANGED <<app_turns, input_line, router_resp, turn_calls,
                 latest_user_query, complexity_tier, retrieved_docs,
                 subquery_plus_docs, ai_resp, app_path, generator_input>>
  /\ UNCHANGED <<rrfVars, hopVars, memVars, mqVars>>

\* line 115: `continue`, the loop goes on with the next input line
AfterOutOfScope_fallthrough == "append_human"
AfterOutOfScope == "input"

\* lines 103-115: the else branch
AppOutOfScope ==
  /\ app_pc = "dispatch"
  /\ complexity_tier # "complex"
  /\ complexity_tier # "multi-hop"
  /\ ai_resp' = out_of_scope_reply
  /\ app_path' = "out_of_scope"
  /\ turn_calls' = turn_calls \cup {"memory"}
  /\ \/ MemAppend(AIMessage(ai_resp')) /\ app_pc' = AfterOutOfScope
     \/ MemAppendRaises(AIMessage(ai_resp')) /\ app_pc' = "crashed"
  /\ UNCHANGED <<app_turns, input_line, router_resp, latest_user_query,
                 complexity_tier, retrieved_docs, subquery_plus_docs,
                 generator_input>>
  /\ UNCHANGED <<rrfVars, hopVars, mqVars>>

\* line 118
AppAppendHuman ==
  /\ app_pc = "append_human"
  /\ turn_calls' = turn_calls \cup {"memory"}
  /\ \/ MemAppend(HumanMessage(latest_user_query)) /\ app_pc' = "generate"
     \/ MemAppendRaises(HumanMessage(latest_user_query)) /\ app_pc' = "crashed"
  /\ UNCHANGED <<app_turns, input_line, router_resp, latest_user_query,
                 complexity_tier, retrieved_docs, subquery_plus_docs, ai_resp,
                 app_path, generator_input>>
  /\ UNCHANGED <<rrfVars, hopVars, mqVars>>

\* lines 122-126
AppGenerate ==
  /\ app_pc = "generate"
  /\ generator_input' =
       [memory |-> conversations,
        subquery_docs |-> subquery_plus_docs,
        documents |-> retrieved_docs]
  /\ ai_resp' \in Responses
  /\ turn_calls' = turn_calls \cup {"generator"}
  /\ app_pc' = "append_ai"
  /\ UNCHANGED <<app_turns, input_line, router_resp, latest_user_query,
                 complexity_tier, retrieved_docs, subquery_plus_docs, app_path>>
  /\ UNCHANGED <<rrfVars, hopVars, memVars, mqVars>>

\* line 135
AppAppendAI ==
  /\ app_pc = "append_ai"
  /\ turn_calls' = turn_calls \cup {"memory"}
  /\ \/ MemAppend(AIMessage(ai_resp)) /\ app_pc' = "input"
     \/ MemAppendRaises(AIMessage(ai_resp)) /\ app_pc' = "crashed"
  /\ UNCHANGED <<app_turns, input_line, router_resp, latest_user_query,
                 complexity_tier, retrieved_docs, subquery_plus_docs, ai_resp,
                 app_path, generator_input>>
  /\ UNCHANGED <<rrfVars, hopVars, mqVars>>

\* No conversation loop running.
AppOff ==
  /\ app_pc = "off"
  /\ app_turns = 0
  /\ input_line = ""
  /\ router_resp = NoRouterResp
  /\ turn_calls = {}
  /\ latest_user_query = ""
  /\ complexity_tier = ""
  /\ retrieved_docs = <<>>
  /\ subquery_plus_docs = EmptyText
  /\ ai_resp = ""
  /\ app_path = "none"
  /\ generator_input = NoGeneratorInput

\* ... and the objects it would use are new.
AppIdle == AppOff /\ MemNew(AppRecallDepth) /\ MQNew

(***************************************************************************)
(* Evaluation loop of ragas_eval.py                                        *)
(***************************************************************************)
\* The script is not running.
EvalOff ==
  /\ eval_pc = "off"
  /\ eval_rows = 0
  /\ count = 0
  /\ answers = <<>>
  /\ retrieved_documents = <<>>

\* lines 32-56: the dataset is read, the two lists are empty
EvalStart ==
  /\ eval_pc = "row"
  /\ eval_rows \in 0..MaxRows
  /\ count = 0
  /\ answers = <<>>
  /\ retrieved_documents = <<>>

\* chat_history = ConversationSummaryMemory(model=llm, k=3) and the append of
\* the greeting (lines 63-64)
EvalNewMemory ==
  /\ conversations' = <<AIMessage(eval_welcome_message)>>
  /\ window' = EvalRecallDepth * 2
  /\ summary_cache' = ""
  /\ summary_calls' = 0
  /\ summary_input' = NoSummaryInput
  /\ summary_seen' = {}
  /\ append_status' = "returned"

\* lines 58-86: the next row; its memory is built, the router answers, both
\* retrievers are instantiated
EvalClassify ==
  /\ eval_pc = "row"
  /\ count < eval_rows
  /\ retrieved_docs' = <<>>
  /\ subquery_plus_docs' = EmptyText
  /\ EvalNewMemory
  /\ latest_user_query' = ragas_question
  /\ \E resp \in RouterResponses :
       /\ RouterReturn(resp).status = "ok"
       /\ router_resp' = resp
       /\ complexity_tier' = RouterReturn(resp).value
  /\ sub_queries' = <<>>
  /\ all_documents' = <<>>
  /\ UNCHANGED mqCallVars
  /\ HopReplaced
  /\ eval_pc' = "dispatch"
  /\ UNCHANGED <<app_pc, app_turns, input_line, turn_calls, ai_resp, app_path,
                 generator_input>>
  /\ UNCHANGED <<eval_rows, count, answers, retrieved_documents>>
  /\ UNCHANGED rrfVars

\* a call of the script raises; nothing in the script catches it:
\* the router (line 70), MultiQueryRetriever.invoke (line 90), the response
\* chain (line 98)
EvalCallRaises ==
  /\ \/ eval_pc = "row" /\ count < eval_rows
     \/ eval_pc = "dispatch" /\ complexity_tier = "complex"
     \/ eval_pc = "answer"
  /\ eval_pc' = "crashed"
  /\ UNCHANGED <<eval_rows, count, answers, retrieved_documents>>
  /\ UNCHANGED <<rrfVars, hopVars, memVars, mqVars, appVars>>

\* lines 89-90
EvalMultiQuery ==
  /\ eval_pc = "dispatch"
  /\ complexity_tier = "complex"
  /\ \E resp \in MQResponses :
       \E results \in MQResults(resp) :
         /\ MQInvoke(resp, results)
         /\ retrieved_docs' = retrieved_docs \o MQBestDocs(results)
  /\ UNCHANGED mqCallVars
  /\ eval_pc' = "answer"
  /\ UNCHANGED <<app_pc, app_turns, input_line, router_resp, turn_calls,
                 latest_user_query, complexity_tier, subquery_plus_docs,
                 ai_resp, app_path, generator_input>>
  /\ UNCHANGED <<eval_rows, count, answers, retrieved_documents>>
  /\ UNCHANGED <<rrfVars, hopVars, memVars>>

\* lines 91-92: multihop_retriever.invoke is entered
EvalMultiHop ==
  /\ eval_pc = "dispatch"
  /\ complexity_tier # "complex"
  /\ complexity_tier = "multi-hop"
  /\ HopEnter(latest_user_query, conversations, DefaultMaxIteration)
  /\ eval_pc' = "multihop"
  /\ UNCHANGED <<eval_rows, count, answers, retrieved_documents>>
  /\ UNCHANGED <<rrfVars, memVars, mqVars, appVars>>

\* the steps of the running multihop_retriever.invoke
EvalMultiHopStep ==
  /\ eval_pc = "multihop"
  /\ HopStep
  /\ UNCHANGED <<rrfVars, memVars, mqVars, appVars, evalVars>>

\* line 92: invoke has returned
EvalMultiHopReturns ==
  /\ eval_pc = "multihop"
  /\ hop_pc = "done"
  /\ subquery_plus_docs' = hop_output
  /\ eval_pc' = "answer"
  /\ UNCHANGED <<app_pc, app_turns, input_line, router_resp, turn_calls,
                 latest_user_query, complexity_tier, retrieved_docs, ai_resp,
                 app_path, generator_input>>
  /\ UNCHANGED <<eval_rows, count, answers, retrieved_documents>>
  /\ UNCHANGED <<rrfVars, hopVars, memVars, mqVars>>

\* line 92: invoke has raised
EvalMultiHopRaises ==
  /\ eval_pc = "multihop"
  /\ hop_pc = "raised"
  /\ eval_pc' = "crashed"
  /\ UNCHANGED <<eval_rows, count, answers, retrieved_documents>>
  /\ UNCHANGED <<rrfVars, hopVars, memVars, mqVars, appVars>>

\* lines 89-92: neither condition holds, no retriever is invoked
EvalNoRetrieval ==
  /\ eval_pc = "dispatch"
  /\ complexity_tier # "complex"
  /\ complexity_tier # "multi-hop"
  /\ eval_pc' = "answer"
  /\ UNCHANGED <<eval_rows, count, answers, retrieved_documents>>
  /\ UNCHANGED <<rrfVars, hopVars, memVars, mqVars, appVars>>

\* lines 95-105: the question is appended to the memory, the response is
\* generated and appended to `answers`
EvalAnswer ==
  /\ eval_pc = "answer"
  /\ MemAppend(HumanMessage(latest_user_query))
  /\ generator_input' =
       [memory |-> conversations',
        subquery_docs |-> subquery_plus_docs,
        documents |-> retrieved_docs]
  /\ ai_resp' \in Responses
  /\ answers' = Append(answers, ai_resp')
  /\ eval_pc' = "contexts"
  /\ UNCHANGED <<app_pc, app_turns, input_line, router_resp, turn_calls,
                 latest_user_query, complexity_tier, retrieved_docs,
                 subquery_plus_docs, app_path>>
  /\ UNCHANGED <<eval_rows, count, retrieved_documents>>
  /\ UNCHANGED <<rrfVars, hopVars, mqVars>>

\* [doc.page_content for doc in docs]: every element has to be a Document;
\* line 116 applies it to retrieved_respective_documents, whose elements are
\* lists of Documents
PageContentsOfLists(lists) ==
  IF lists = <<>>
  THEN [status |-> "ok", value |-> <<>>]
  ELSE [status |-> "raised", value |-> <<>>]

\* lines 109-120: the retrieved contexts of the row are stored, count += 1
EvalContexts ==
  /\ eval_pc = "contexts"
  /\ IF complexity_tier = "complex"
     THEN /\ retrieved_documents' =
               Append(retrieved_documents, PageContents(retrieved_docs))
          /\ count' = count + 1
          /\ eval_pc' = "row"
     ELSE IF complexity_tier = "multi-hop"
     THEN LET texts == PageContentsOfLists(retrieved_respective_documents)
          IN IF texts.status = "ok"
             THEN /\ retrieved_documents' =
                       Append(retrieved_documents, texts.value)
                  /\ count' = count + 1
                  /\ eval_pc' = "row"
             ELSE /\ eval_pc' = "crashed"        \* AttributeError
                  /\ UNCHANGED <<retrieved_documents, count>>
     ELSE /\ count' = count + 1
          /\ eval_pc' = "row"
          /\ UNCHANGED retrieved_documents
  /\ UNCHANGED <<eval_rows, answers>>
  /\ UNCHANGED <<rrfVars, hopVars, memVars, mqVars, appVars>>

\* eval_df[column] = values: the list has to be as long as the frame
ColumnFits(values) == Len(values) = eval_rows

\* lines 128-131: both lists become columns of eval_df, which is saved
EvalSave ==
  /\ eval_pc = "row"
  /\ count = eval_rows
  /\ eval_pc' = IF ColumnFits(answers) /\ ColumnFits(retrieved_documents)
                THEN "saved"
                ELSE "crashed"                   \* ValueError
  /\ UNCHANGED <<eval_rows, count, answers, retrieved_documents>>
  /\ UNCHANGED <<rrfVars, hopVars, memVars, mqVars, appVars>>

(***************************************************************************)
(* Specifications                                                          *)
(***************************************************************************)
\* RRF on its own: an object built from bounded lists, then rearrange calls.
otherVars == <<memVars, mqVars, appVars, evalVars>>
InitRRF == RRFInit /\ HopNew /\ AppIdle /\ EvalOff
NextRRF ==
  \/ RRFRearrange /\ UNCHANGED <<hopVars, otherVars>>
  \/ RRFConstruct /\ UNCHANGED <<hopVars, otherVars>>
SpecRRF == InitRRF /\ [][NextRRF]_vars

\* No RRF object under test.
RRFIdle ==
  /\ documents = <<>>
  /\ rrf_scores = EmptyDict
  /\ rrf_top_k = 0
  /\ rrf_out = NoOutcome
  /\ rrf_calls = 0
  /\ rrf_objects = 0

\* MultiHopRetriever on its own: a new object, then invoke calls.  A running
\* invoke goes on whenever the oracle and the retrievers answer or raise.
InitHop == RRFIdle /\ HopNew /\ AppIdle /\ EvalOff
NextHop ==
  \/ HopInvoke /\ UNCHANGED <<rrfVars, otherVars>>
  \/ HopOracle /\ UNCHANGED <<rrfVars, otherVars>>
  \/ HopOracleRaises /\ UNCHANGED <<rrfVars, otherVars>>
  \/ HopRetrieve /\ UNCHANGED <<rrfVars, otherVars>>
  \/ HopRetrieverRaises /\ UNCHANGED <<rrfVars, otherVars>>
  \/ HopReturn /\ UNCHANGED <<rrfVars, otherVars>>
SpecHop == InitHop /\ [][NextHop]_vars

\* A running invoke moves on to its next position: the interpreter keeps
\* executing the call, and the oracle and the retrievers answer or raise.
\* Every step of HopStep changes hop_pc, and only such steps do so while the
\* invoke is running.
HopPositions == {"idle", "loop", "retrieve", "return", "done", "raised"}
HopAdvances ==
  /\ hop_pc \in {"loop", "retrieve", "return"}
  /\ hop_pc' \in HopPositions
  /\ hop_pc' # hop_pc
FairSpecHop == SpecHop /\ WF_hop_pc(HopAdvances)

\* The conversation loop of app.py.
InitApp == RRFIdle /\ HopNew /\ MQNew /\ AppStart /\ EvalOff
NextApp ==
  \/ AppReadInput /\ UNCHANGED evalVars
  \/ AppClassify /\ UNCHANGED evalVars
  \/ AppClassifyRaises /\ UNCHANGED evalVars
  \/ AppCallRaises /\ UNCHANGED evalVars
  \/ AppMultiQuery /\ UNCHANGED evalVars
  \/ AppMultiHop /\ UNCHANGED evalVars
  \/ AppMultiHopStep /\ UNCHANGED evalVars
  \/ AppMultiHopReturns /\ UNCHANGED evalVars
  \/ AppMultiHopRaises /\ UNCHANGED evalVars
  \/ AppOutOfScope /\ UNCHANGED evalVars
  \/ AppAppendHuman /\ UNCHANGED evalVars
  \/ AppGenerate /\ UNCHANGED evalVars
  \/ AppAppendAI /\ UNCHANGED evalVars
SpecApp == InitApp /\ [][NextApp]_vars

\* The evaluation script ragas_eval.py.
InitEval == RRFIdle /\ HopNew /\ AppIdle /\ EvalStart
NextEval ==
  \/ EvalClassify
  \/ EvalCallRaises
  \/ EvalMultiQuery
  \/ EvalMultiHop
  \/ EvalMultiHopStep
  \/ EvalMultiHopReturns
  \/ EvalMultiHopRaises
  \/ EvalNoRetrieval
  \/ EvalAnswer
  \/ EvalContexts
  \/ EvalSave
SpecEval == InitEval /\ [][NextEval]_vars

\* ConversationSummaryMemory on its own: a new object of recall depth k, then
\* append calls, the summarization chain answering or raising.
InitMem ==
  /\ RRFIdle /\ HopNew /\ MQNew /\ AppOff /\ EvalOff
  /\ \E k \in 0..MaxRecall : MemNew(k)
MemAppendReturns ==
  /\ Len(conversations) < MaxAppends
  /\ \E conversation \in Turns : MemAppend(conversation)
MemAppendFails ==
  /\ Len(conversations) < MaxAppends
  /\ \E conversation \in Turns : MemAppendRaises(conversation)
NextMem ==
  \/ MemAppendReturns /\ UNCHANGED <<rrfVars, hopVars, mqVars, appVars, evalVars>>
  \/ MemAppendFails /\ UNCHANGED <<rrfVars, hopVars, mqVars, appVars, evalVars>>
SpecMem == InitMem /\ [][NextMem]_vars

\* MultiQueryRetriever on its own: a new object, then invoke calls.
InitMQ == RRFIdle /\ HopNew /\ AppIdle /\ EvalOff
NextMQ ==
  \/ MQInvokeReturns /\ UNCHANGED <<rrfVars, hopVars, memVars, appVars, evalVars>>
  \/ MQInvokeRaises /\ UNCHANGED <<rrfVars, hopVars, memVars, appVars, evalVars>>
SpecMQ == InitMQ /\ [][NextMQ]_vars

(***************************************************************************)
(* Properties of RRF.rearrange                                             *)
(***************************************************************************)
\* A call of rearrange has just completed on the current object.
Fused == rrf_out.status = "ok" /\ rrf_scores.kind = "list"

\* Positions <<list, rank>> of the input, and those holding document d.
Positions ==
  {p \in (1..Len(documents)) \X (1..MaxRank) : p[2] <= Len(documents[p[1]])}
PositionsOf(d) == {p \in Positions : documents[p[1]][p[2]] = d}
InputDocs == {documents[p[1]][p[2]] : p \in Positions}
ListHas(l, d) == \E r \in 1..Len(documents[l]) : documents[l][r] = d

\* Sum of 1/(60+r) over a set of positions, in units of 1/RRFScale.
RECURSIVE SumReciprocalRanks(_)
SumReciprocalRanks(S) ==
  IF S = {} THEN 0
  ELSE LET p == CHOOSE q \in S : TRUE
       IN (RRFScale \div (60 + p[2])) + SumReciprocalRanks(S \ {p})

\* Entries of the accumulated scores that belong to document d.
EntriesOf(d) ==
  {i \in 1..Len(rrf_scores.items) :
     /\ rrf_scores.items[i][1][1] = d.page_content
     /\ rrf_scores.items[i][1][2] = d.metadata}
AccScore(d) == rrf_scores.items[CHOOSE i \in EntriesOf(d) : TRUE][2]

\* The full ranking the call has left in rrf_scores, as documents.
FullRanking ==
  List([i \in 1..Len(rrf_scores.items) |->
          Document(rrf_scores.items[i][1][1], rrf_scores.items[i][1][2])])

\* C2: after rearrange, the accumulated score of every document of the input
\* is the sum of 1/(60+r) over all lists and all 1-based ranks r at which it
\* appears; lists without the document add nothing.
C2_ScoreIsSumOfReciprocalRanks ==
  Fused =>
    \A d \in InputDocs :
      /\ EntriesOf(d) # {}
      /\ AccScore(d) = SumReciprocalRanks(PositionsOf(d))

C2_Witness ==
  /\ Fused
  /\ Len(documents) = 2
  /\ \E d, e \in InputDocs :
       /\ ListHas(1, d) /\ ListHas(2, d)
       /\ ListHas(1, e) /\ ~ListHas(2, e)
       /\ \E p \in PositionsOf(d) : p[2] > 1

\* C3: the output holds every document at most once, however often it occurs
\* in the input, and holds no document that is in none of the input lists.
C3_OutputHasNoDuplicates ==
  Fused =>
    /\ \A i, j \in 1..Len(rrf_out.docs) :
         i # j => rrf_out.docs[i] # rrf_out.docs[j]
    /\ \A i \in 1..Len(rrf_out.docs) : rrf_out.docs[i] \in InputDocs

C3_Witness ==
  /\ Fused
  /\ rrf_top_k = 0
  /\ Len(documents) = 2
  /\ \E d \in InputDocs :
       /\ Cardinality(PositionsOf(d)) >= 3
       /\ ListHas(1, d) /\ ListHas(2, d)
       /\ \E i \in 1..Len(rrf_out.docs) : rrf_out.docs[i] = d

\* Position p is scanned before position q.
ScannedBefore(p, q) == p[1] < q[1] \/ (p[1] = q[1] /\ p[2] < q[2])
FirstSeenBefore(d, e) ==
  \E p \in PositionsOf(d) : \A q \in PositionsOf(e) : ScannedBefore(p, q)

\* C4: the output is in order of descending accumulated score, and documents
\* of equal score are in the order in which the scan first saw them.
C4_DescendingStable ==
  Fused =>
    \A i, j \in 1..Len(rrf_out.docs) :
      i < j =>
        /\ AccScore(rrf_out.docs[i]) >= AccScore(rrf_out.docs[j])
        /\ AccScore(rrf_out.docs[i]) = AccScore(rrf_out.docs[j])
             => FirstSeenBefore(rrf_out.docs[i], rrf_out.docs[j])

C4_Witness ==
  /\ Fused
  /\ \E i, j \in 1..Len(rrf_out.docs) :
       /\ i < j
       /\ AccScore(rrf_out.docs[i]) = AccScore(rrf_out.docs[j])
  /\ \E i, j \in 1..Len(rrf_out.docs) :
       /\ i < j
       /\ AccScore(rrf_out.docs[i]) > AccScore(rrf_out.docs[j])
       /\ FirstSeenBefore(rrf_out.docs[j], rrf_out.docs[i])

\* C5: with D distinct documents in the input, top_k = 0 returns all D,
\* 0 < top_k <= D returns the first top_k of the full ranking, and top_k > D
\* returns all D, neither padded nor failing.
DistinctDocs == Cardinality(InputDocs)

C5_TopKBoundary ==
  (rrf_calls = 1 /\ rrf_out.status # "none") =>
    /\ rrf_out.status = "ok"
    /\ Len(FullRanking) = DistinctDocs
    /\ rrf_top_k = 0 => rrf_out.docs = FullRanking
    /\ (0 < rrf_top_k /\ rrf_top_k <= DistinctDocs)
         => rrf_out.docs = SubSeq(FullRanking, 1, rrf_top_k)
    /\ rrf_top_k > DistinctDocs => rrf_out.docs = FullRanking

C5_Witness ==
  /\ Fused
  /\ DistinctDocs >= 2
  /\ rrf_top_k > DistinctDocs
  /\ Len(rrf_out.docs) = DistinctDocs

\* The documents of a list in the order of their first occurrences.
RECURSIVE FirstOccurrences(_)
FirstOccurrences(docs) ==
  IF docs = <<>> THEN <<>>
  ELSE LET front == FirstOccurrences(SubSeq(docs, 1, Len(docs) - 1))
           last == docs[Len(docs)]
       IN IF \E i \in 1..Len(front) : front[i] = last
          THEN front ELSE Append(front, last)

\* C6 (as stated): fusing one list with top_k = 0 returns its documents in
\* their original relative order, also when a document occurs at several
\* ranks (order of first occurrences).
C6_SingleListKeepsOrder_Original ==
  (Fused /\ Len(documents) = 1 /\ rrf_top_k = 0)
    => rrf_out.docs = FirstOccurrences(documents[1])

\* C6 (amended): fusing one list in which no document occurs twice, with
\* top_k = 0, returns exactly that list.
C6_SingleListKeepsOrder ==
  (Fused /\ Len(documents) = 1 /\ rrf_top_k = 0
     /\ FirstOccurrences(documents[1]) = documents[1])
    => rrf_out.docs = documents[1]

C6_Witness ==
  /\ Fused
  /\ Len(documents) = 1
  /\ rrf_top_k = 0
  /\ Len(documents[1]) = 3
  /\ FirstOccurrences(documents[1]) = documents[1]
  /\ rrf_out.docs = documents[1]

\* C7: fusion is pure and deterministic: every rearrange call on the same
\* lists, on a new object or on one already used, completes and returns what
\* the first call returned.
C7_RepeatedCallSameOutput ==
  rrf_out.status # "none" =>
    /\ rrf_out.status = "ok"
    /\ rrf_out.docs = Fuse(documents, rrf_top_k)

\* C8: the module's test, rearrange(3) over the three lists, returns
\* [four, three, two]; four has the strictly highest score, three and two
\* outscore one and five.
C8_TestScenario ==
  (Fused /\ documents = all_docs /\ rrf_top_k = 3) =>
    /\ rrf_out.docs = <<DocFour, DocThree, DocTwo>>
    /\ \A d \in {DocOne, DocTwo, DocThree, DocFive} :
         AccScore(DocFour) > AccScore(d)
    /\ \A d \in {DocThree, DocTwo} : \A e \in {DocOne, DocFive} :
         AccScore(d) > AccScore(e)

C8_Witness ==
  /\ Fused
  /\ documents = all_docs
  /\ rrf_top_k = 3
  /\ Len(rrf_out.docs) = 3

\* Identity of the data model: equal content and the same set of metadata
\* (key, value) pairs, whatever their order.
PairSet(metadata) == {metadata[i] : i \in 1..Len(metadata)}
SameEntity(d, e) ==
  /\ d.page_content = e.page_content
  /\ PairSet(d.metadata) = PairSet(e.metadata)

\* C9: two documents of the input are merged into one accumulated entry and
\* one output entry if and only if they have equal content and the same set
\* of metadata pairs, in whatever order the pairs are stored.
C9_MergedIffSameEntity ==
  (Fused /\ rrf_top_k = 0) =>
    \A d, e \in InputDocs :
      SameEntity(d, e) <=>
        /\ EntriesOf(d) = EntriesOf(e)
        /\ {i \in 1..Len(rrf_out.docs) : SameEntity(rrf_out.docs[i], d)}
             = {i \in 1..Len(rrf_out.docs) : SameEntity(rrf_out.docs[i], e)}
        /\ Cardinality({i \in 1..Len(rrf_out.docs) :
                          SameEntity(rrf_out.docs[i], d)}) = 1

(***************************************************************************)
(* Properties of MultiHopRetriever.invoke                                  *)
(***************************************************************************)
HopRunning == hop_pc \in {"loop", "retrieve", "return"}
HopEnded == hop_pc \in {"done", "raised"}

\* C10: every invoke ends, and it makes at most max_iteration_allowed oracle
\* calls and at most max_iteration_allowed retrieve-and-fuse steps, whatever
\* the oracle decides; with max_iteration_allowed = 0 it makes no oracle call.
C10_HopBudget ==
  /\ hop_oracle_calls <= max_iteration_allowed
  /\ hop_fusions <= max_iteration_allowed
  /\ hop_fusions <= hop_oracle_calls

C10_BoundedTermination ==
  /\ [](hop_invokes > 0 => C10_HopBudget)
  /\ HopRunning ~> HopEnded

C10_Witness ==
  /\ hop_pc = "done"
  /\ max_iteration_allowed = MaxIter
  /\ hop_oracle_calls = max_iteration_allowed
  /\ hop_fusions = max_iteration_allowed
  /\ ~hop_resp.end_of_generation

\* The first invoke of a MultiHopRetriever object has returned; every caller
\* in the repository builds the object and invokes it once.
FirstInvokeDone == hop_pc = "done" /\ hop_invokes = 1

\* ... and the oracle never ended the generation during it.
NeverEnded == FirstInvokeDone /\ ~hop_resp.end_of_generation

DistinctTexts(texts) == {texts[i] : i \in 1..Len(texts)}

\* C11 as stated: when end_of_generation is never true, the invoke on a fresh
\* object ends with exactly max_iteration_allowed records retained and
\* rendered in its output, whatever the subquery texts, repeated ones
\* included.
C11_NeverEndedKeepsMax_Original ==
  NeverEnded =>
    /\ Len(subqueries) = max_iteration_allowed
    /\ Len(retrieved_respective_documents) = max_iteration_allowed
    /\ Len(hop_output.entries) = max_iteration_allowed

\* C11: when end_of_generation is never true, the invoke on a fresh object
\* ends with max_iteration_allowed subqueries and document lists retained on
\* the object, and its output renders one record per distinct subquery text:
\* exactly max_iteration_allowed records when the texts are pairwise
\* distinct, fewer when a text is repeated.
C11_NeverEndedKeepsMax ==
  NeverEnded =>
    /\ Len(subqueries) = max_iteration_allowed
    /\ Len(retrieved_respective_documents) = max_iteration_allowed
    /\ Len(hop_output.entries) = Cardinality(DistinctTexts(subqueries))
    /\ Cardinality(DistinctTexts(subqueries)) = max_iteration_allowed
         => Len(hop_output.entries) = max_iteration_allowed

C11_Witness ==
  /\ NeverEnded
  /\ max_iteration_allowed = MaxIter
  /\ Len(subqueries) = MaxIter
  /\ Len(hop_output.entries) = 2
  /\ subqueries[1] = subqueries[MaxIter]

\* C12: when the oracle ends the generation on hop j of an object's first
\* invoke, the invoke stops there: it only returns, j oracle calls and j-1
\* retrieve-and-fuse steps were made, the step that receives the decision and
\* the return add no record, and the records retained are those of hops
\* 1..j-1 (one record for j = 2, none for j = 1).
EndedOnHop == hop_invokes = 1 /\ hop_resp.end_of_generation

C12_StoppedState ==
  EndedOnHop =>
    /\ hop_pc \in {"return", "done"}
    /\ hop_oracle_calls = hop_i + 1
    /\ hop_fusions = hop_i
    /\ Len(subqueries) = hop_i
    /\ Len(retrieved_respective_documents) = hop_i
    /\ hop_pc = "done" =>
         /\ hop_output =
              GenerateSubqueryContent(subqueries, retrieved_respective_documents)
         /\ hop_oracle_calls = 1 => hop_output.entries = <<>>
         /\ hop_oracle_calls = 2 => Len(hop_output.entries) = 1

C12_StoppingStep ==
  (hop_invokes' = 1 /\ hop_resp'.end_of_generation) =>
    UNCHANGED <<subqueries, retrieved_respective_documents, hop_fusions>>

C12_StopsAtEndOfGeneration ==
  /\ []C12_StoppedState
  /\ [][C12_StoppingStep]_vars

C12_Witness ==
  /\ EndedOnHop
  /\ hop_pc = "done"
  /\ hop_oracle_calls = 2
  /\ Len(hop_output.entries) = 1
  /\ max_iteration_allowed = MaxIter

\* First and latest hop whose subquery text is t.
FirstHop(t) ==
  CHOOSE i \in 1..Len(subqueries) :
    subqueries[i] = t /\ \A j \in 1..(i - 1) : subqueries[j] # t
LatestHop(t) ==
  CHOOSE i \in 1..Len(subqueries) :
    subqueries[i] = t /\ \A j \in (i + 1)..Len(subqueries) : subqueries[j] # t

\* C13: the output holds one record per subquery text, a repeated text
\* included; the record carries the fused documents of the latest hop with
\* that text and stands at the position of the first hop with it, the records
\* being numbered from 1 in the order in which the distinct texts first came.
C13_RepeatedSubqueryOverwrites ==
  FirstInvokeDone =>
    LET entries == hop_output.entries
    IN /\ DistinctTexts(subqueries) = {entries[n].subquery : n \in 1..Len(entries)}
       /\ \A n \in 1..Len(entries) :
            /\ entries[n].index = n
            /\ entries[n].documents =
                 PageContents(retrieved_respective_documents[LatestHop(entries[n].subquery)])
            /\ \A m \in 1..Len(entries) :
                 m < n <=> FirstHop(entries[m].subquery) < FirstHop(entries[n].subquery)

C13_Witness ==
  /\ FirstInvokeDone
  /\ Len(subqueries) = 3
  /\ subqueries[1] = subqueries[3]
  /\ subqueries[2] # subqueries[1]
  /\ PageContents(retrieved_respective_documents[1])
       # PageContents(retrieved_respective_documents[3])
  /\ Len(hop_output.entries) = 2
  /\ hop_output.entries[1].subquery = subqueries[3]
  /\ hop_output.entries[1].documents =
       PageContents(retrieved_respective_documents[3])

\* C14: when the oracle call or a retriever call fails during a hop, the
\* records of the earlier hops stay as they were, each retained subquery
\* paired with the fused documents of its own hop: the failing hop leaves no
\* subquery without a document list, so no later pairing is shifted, and the
\* prompt context rendered from the lists is the one the failing hop was
\* given.
C14_FailedHopKeepsPairs ==
  hop_pc = "raised" =>
    /\ Len(subqueries) = Len(retrieved_respective_documents)
    /\ HopPromptContext = hop_context

\* C26: the hops of an invoke are sequential.  The oracle call of hop i is
\* made when the retrievals and fusions of the i-1 hops before it are done,
\* and it is given the rendering of the records of exactly those hops (the
\* empty text on the first hop of a new object), the original query, the
\* memory and the iteration budget.
C26_OracleCall ==
  (hop_invokes = 1 /\ hop_oracle_calls' = hop_oracle_calls + 1) =>
    /\ hop_fusions = hop_oracle_calls
    /\ Len(subqueries) = hop_oracle_calls
    /\ Len(retrieved_respective_documents) = hop_oracle_calls
    /\ hop_context' =
         (IF hop_oracle_calls = 0
          THEN EmptyText
          ELSE GenerateSubqueryContent(subqueries, retrieved_respective_documents))
    /\ hop_prompt'.user_query = hop_args.user_query
    /\ hop_prompt'.memory = hop_args.memory
    /\ hop_prompt'.max_iteration_allowed = max_iteration_allowed

C26_FusionStep ==
  (hop_invokes = 1 /\ hop_fusions' = hop_fusions + 1) =>
    /\ hop_oracle_calls = hop_fusions + 1
    /\ UNCHANGED hop_oracle_calls

C26_HopsAreSequential ==
  /\ [][C26_OracleCall]_vars
  /\ [][C26_FusionStep]_vars

C26_Witness ==
  /\ hop_invokes = 1
  /\ hop_oracle_calls = 3
  /\ hop_fusions = 2
  /\ hop_context.entries # <<>>
  /\ hop_context =
       GenerateSubqueryContent(SubSeq(subqueries, 1, 2),
                               retrieved_respective_documents)
  /\ hop_prompt.user_query = "q2"
  /\ hop_prompt.memory # <<>>
  /\ hop_prompt.max_iteration_allowed = MaxIter

(***************************************************************************)
(* Properties of MultiQueryRetriever.invoke                                *)
(***************************************************************************)
\* The first invoke of a MultiQueryRetriever object has returned.
FirstMQInvokeDone == mq_status = "done" /\ mq_invokes = 1

\* Score the fusion of self.all_documents gives to document d.
MQScore(d) ==
  DictGet(Rearrange(all_documents, EmptyDict, 0).rrf_scores.items, KeyOf(d), 0)

\* C15: for every paraphrase the lexical list and the dense list reach the
\* fusion as two separate lists, each ranked from 1: with P paraphrases the
\* fusion is given 2P lists, and the top dense result of a paraphrase
\* contributes 1/61 like the top lexical one.
C15_SeparateRankedLists ==
  FirstMQInvokeDone =>
    /\ Len(all_documents) = 2 * Len(sub_queries)
    /\ \A i \in 1..Len(mq_results) :
         /\ all_documents[2 * i - 1] = mq_results[i][1]
         /\ all_documents[2 * i] = mq_results[i][2]
         /\ MQScore(mq_results[i][1][1]) >= rrf_rank(1)
         /\ MQScore(mq_results[i][2][1]) >= rrf_rank(1)

\* The chain's result is no dict, or a dict without "generatedQueries".
Malformed(resp) == resp.kind \in {"dict_without_key", "no_dict"}

\* C16: when the oracle's result is malformed, invoke goes on with exactly
\* one query, the empty string: both retrievers are called for it, once, and
\* the fusion of what they return is the value returned.
C16_MalformedFallsBack ==
  (mq_invokes = 1 /\ Malformed(mq_resp)) =>
    /\ sub_queries = <<"">>
    /\ mq_status = "done" =>
         /\ Len(mq_results) = 1
         /\ all_documents = <<mq_results[1][1] \o mq_results[1][2]>>
         /\ mq_out = Fuse(all_documents, MultiQueryTopK)

C16_Witness ==
  /\ FirstMQInvokeDone
  /\ mq_resp.kind = "no_dict"
  /\ sub_queries = <<"">>
  /\ Len(mq_out) = 3

\* C17: the value an invoke returns depends on that call's inputs only:
\* the call starts from empty accumulators, so the queries it retrieves for
\* are those its own oracle result gives, and the lists it fuses are those
\* its own retriever calls return; nothing gathered by an earlier invoke on
\* the same object is among them.
C17_InvokeStartsEmpty ==
  mq_status = "done" =>
    /\ sub_queries = TranslatedQueries(mq_resp)
    /\ all_documents = Retrieved(mq_results)
    /\ mq_out = Fuse(Retrieved(mq_results), MultiQueryTopK)

(***************************************************************************)
(* Properties of the conversation loop                                     *)
(***************************************************************************)
\* C1: a query classified multi_hop is handled by MultiHopRetriever.invoke and
\* one classified complex by MultiQueryRetriever.invoke, the response
\* generator is then called with the retrieved context, and the out-of-scope
\* reply is given for neither tier.
C1_TierDispatch ==
  /\ (app_path # "none" /\ complexity_tier = "multi_hop")
       => app_path = "multi_hop"
  /\ (app_path # "none" /\ complexity_tier = "complex")
       => app_path = "multi_query"
  /\ (app_pc = "append_ai" /\ complexity_tier = "multi_hop")
       => generator_input.subquery_docs = subquery_plus_docs
  /\ (app_pc = "append_ai" /\ complexity_tier = "complex")
       => generator_input.documents = retrieved_docs

\* Tier values for which the loop has a retrieval branch (lines 98, 100).
RetrievalTiers == {"complex", "multi-hop"}

\* C27: every tier value without a retrieval branch, simple_conversation as
\* well as a value outside the schema, takes the same out-of-scope path: the
\* fixed reply is given, and no retriever and no response generator is
\* invoked in that turn.
C27_Dispatch ==
  (app_pc = "dispatch" /\ complexity_tier \notin RetrievalTiers) =>
    /\ app_path' = "out_of_scope"
    /\ ai_resp' = out_of_scope_reply
    /\ UNCHANGED <<hopVars, mqVars, generator_input, retrieved_docs,
                   subquery_plus_docs>>

C27_OutOfScopeTurn ==
  app_path = "out_of_scope" =>
    /\ complexity_tier \notin RetrievalTiers
    /\ ai_resp = out_of_scope_reply
    /\ turn_calls = {"router", "memory"}
    /\ app_pc \in {"input", "crashed"}

C27_OtherTiersOutOfScope ==
  /\ []C27_OutOfScopeTurn
  /\ [][C27_Dispatch]_vars

C27_Witness ==
  /\ app_path = "out_of_scope"
  /\ app_pc = "input"
  /\ complexity_tier = "irrelevant"
  /\ app_turns = 2
  /\ Len(conversations) = 4

\* C28: a turn that takes the out-of-scope path adds exactly one turn to the
\* memory, the fixed reply as an AI turn; the query of that turn is not
\* appended: the history, the windowed view and the input of a summarization
\* made in that turn end with the reply, an AI turn standing before it.
C28_Append ==
  /\ app_pc \in {"input", "classify"} => UNCHANGED conversations
  /\ (app_pc = "dispatch" /\ app_path' = "out_of_scope") =>
       conversations' = Append(conversations, AIMessage(out_of_scope_reply))

C28_AfterOutOfScope ==
  app_path = "out_of_scope" =>
    LET n == Len(conversations)
        view == WindowedConversation(conversations, window)
        latest == summary_input.latest
    IN /\ n >= 2
       /\ conversations[n] = AIMessage(out_of_scope_reply)
       /\ conversations[n - 1].type = "ai"
       /\ view[Len(view)] = AIMessage(out_of_scope_reply)
       /\ view[Len(view) - 1].type = "ai"
       /\ n > window =>
            /\ latest[Len(latest)] = <<">", "ai", out_of_scope_reply>>
            /\ latest[Len(latest) - 1][2] = "ai"

RetrievalPaths == {"multi_query", "multi_hop"}

C29_Order ==
  (app_path' \in RetrievalPaths /\ app_pc' # app_pc /\ app_pc' # "crashed") =>
    <<app_pc, app_pc'>> \in
      {<<"dispatch", "append_human">>, <<"dispatch", "multihop">>,
       <<"multihop", "append_human">>, <<"append_human", "generate">>,
       <<"generate", "append_ai">>, <<"append_ai", "input">>}

C29_Memory ==
  LET n == Len(conversations)
  IN /\ app_pc \in {"classify", "dispatch", "multihop"} =>
          conversations[n].type = "ai"
     /\ app_pc = "multihop" =>
          /\ hop_args.memory = conversations
          /\ hop_args.user_query = latest_user_query
     /\ app_pc = "append_ai" =>
          /\ app_path \in RetrievalPaths
          /\ generator_input.memory = conversations
          /\ conversations[n].type = "human"
          /\ conversations[n].content = latest_user_query
          /\ conversations[n - 1].type = "ai"
     /\ (app_pc = "input" /\ app_path \in RetrievalPaths) =>
          /\ Len(generator_input.memory) = n - 1
          /\ SubSeq(conversations, 1, n - 1) = generator_input.memory
          /\ conversations[n - 1].type = "human"
          /\ conversations[n - 1].content = latest_user_query
          /\ conversations[n] = AIMessage(ai_resp)
          /\ conversations[n - 2].type = "ai"

C29_RetrievalTurnOrder ==
  /\ []C29_Memory
  /\ [][C29_Order]_vars

C29_Witness ==
  /\ app_pc = "input"
  /\ app_path = "multi_hop"
  /\ app_turns = 2
  /\ Len(conversations) = 5
  /\ generator_input.subquery_docs.entries # <<>>

\* C18: when the router's structured result omits the complexity value,
\* QueryComplexity.invoke returns the default tier simple_conversation and
\* the session is not aborted.
C18_OmittedValueDefaults ==
  router_resp.kind = "dict_without_key" =>
    /\ complexity_tier = "simple_conversation"
    /\ app_pc # "crashed"

\* Lines equal to `exit` when case and surrounding whitespace are ignored.
ExitLines == {"exit", " Exit ", "EXIT"}

\* C19: a line equal to `exit`, case and surrounding whitespace ignored, ends
\* the session and is out of band: the router, the retrievers and the
\* response generator are not invoked for it, no turn is appended to memory,
\* and nothing runs after it.
C19_ExitState ==
  input_line \in ExitLines =>
    /\ app_pc = "ended"
    /\ turn_calls = {}
    /\ latest_user_query \notin
         {conversations[n].content : n \in 1..Len(conversations)}

C19_ExitStep ==
  input_line' \in ExitLines =>
    UNCHANGED <<memVars, hopVars, mqVars, router_resp, complexity_tier,
                ai_resp, generator_input>>

C19_ExitIsOutOfBand ==
  /\ []C19_ExitState
  /\ [][C19_ExitStep]_vars
  /\ [][app_pc # "ended"]_vars

C19_Witness ==
  /\ app_pc = "ended"
  /\ input_line = " Exit "
  /\ app_turns = 3
  /\ Len(conversations) = 5
  /\ complexity_tier = "complex"

(***************************************************************************)
(* Properties of ConversationSummaryMemory                                 *)
(***************************************************************************)
\* C20: for every recall depth k >= 0 (window = 2k) and every number n of
\* appended turns, windowed_conversation is the last min(n, window) turns in
\* arrival order; after window + 1 appends it is the `window` latest turns.
C20_WindowIsLastTurns ==
  LET n == Len(conversations)
      m == IF n < window THEN n ELSE window
      view == WindowedConversation(conversations, window)
  IN /\ Len(view) = m
     /\ \A i \in 1..m : view[i] = conversations[n - m + i]
     /\ n = window + 1 => Len(view) = window


\* C21: the append of the n-th turn calls the summarization chain exactly
\* once when n > window and not at all when n <= window; the cached summary
\* is the empty string until the (window+1)-th append, and every append after
\* it makes one more call.
C21_CallsSoFar ==
  LET n == Len(conversations)
  IN /\ summary_calls = (IF n > window THEN n - window ELSE 0)
     /\ n <= window => summary_cache = ""

C21_CallsOfAppend ==
  Len(conversations') = Len(conversations) + 1 =>
    summary_calls' =
      summary_calls + (IF Len(conversations') > window THEN 1 ELSE 0)

C21_SummaryTrigger ==
  /\ []C21_CallsSoFar
  /\ [][C21_CallsOfAppend]_vars

C21_Witness ==
  /\ window = 2
  /\ Len(conversations) = window + 2
  /\ summary_calls = 2
  /\ summary_cache # ""

\* C22: each summarization call made by append is given the summary cached
\* before it and the last `window` turns, the turn just appended among them,
\* and no turn older than the window; the text the chain returns becomes the
\* cached summary.
C22_LatestInput ==
  summary_calls > 0 =>
    LET n == Len(conversations)
    IN summary_input.latest =
         PrettyPrint(SubSeq(conversations, n - window + 1, n))

C22_CallOfAppend ==
  summary_calls' = summary_calls + 1 =>
    /\ summary_input'.prev = summary_cache
    /\ append_status' = "returned" => summary_cache' \in SummaryTexts

C22_SummaryInputIsWindow ==
  /\ []C22_LatestInput
  /\ [][C22_CallOfAppend]_vars

\* C23: whenever the turn count exceeds the window, every turn that is no
\* longer in the windowed view was, in a windowed view, part of the input of
\* at least one summarization call made so far.
C23_OlderTurnsWereSummarized ==
  Len(conversations) > window =>
    \A i \in 1..Len(conversations) :
      i \notin ViewPositions(conversations, window) => i \in summary_seen

\* C24: the history is append-only: every operation leaves the stored turns
\* as they are and in their order, an append adding the new turn at the end.
C24_Step ==
  \/ conversations' = conversations
  \/ /\ Len(conversations') = Len(conversations) + 1
     /\ SubSeq(conversations', 1, Len(conversations)) = conversations

C24_HistoryAppendOnly == [][C24_Step]_vars

C24_Witness ==
  /\ window = 2
  /\ Len(conversations) = 4
  /\ summary_calls = 2
  /\ conversations[1] = HumanMessage("m2")
  /\ conversations[2] = AIMessage("m1")
  /\ conversations[4] = HumanMessage("m1")

\* C30: when the summarization chain raises during append, the new turn is
\* in the history, at its end, and in the windowed view, and the cached
\* summary keeps the value it had before the call.
C30_Step ==
  (append_status' = "raised" /\ summary_calls' = summary_calls + 1) =>
    /\ \E conversation \in Turns :
         /\ conversations' = Append(conversations, conversation)
         /\ LET view == WindowedConversation(conversations', window)
            IN view # <<>> /\ view[Len(view)] = conversation
    /\ summary_cache' = summary_cache

C30_FailedAppendKeepsTurn == [][C30_Step]_vars

C30_Witness ==
  /\ append_status = "raised"
  /\ window = 2
  /\ Len(conversations) = 4
  /\ summary_calls = 2
  /\ summary_cache \in SummaryTexts

(***************************************************************************)
(* Properties of the evaluation loop                                       *)
(***************************************************************************)
\* C25: the batch evaluation loop produces, for every row and whatever tier
\* the row is given, one response and one retrieved_contexts entry: between
\* rows and after the loop both lists are as long as the number of rows
\* processed, so that both columns can be stored.
C25_OneEntryPerRow ==
  /\ eval_pc = "row" =>
       /\ Len(answers) = count
       /\ Len(retrieved_documents) = count
  /\ eval_pc = "crashed" /\ count = eval_rows =>
       /\ ColumnFits(answers)
       /\ ColumnFits(retrieved_documents)

====
